---- MODULE Spec2Model ----
(***************************************************************************)
(* A model of the microservices e-commerce demo: the Product, Auth and     *)
(* Order services (Express handlers over MongoDB with an in-memory         *)
(* fallback) and the API gateway (cors + three mounted proxies + GET /).   *)
(*                                                                         *)
(* Each service is a single-threaded event loop: a handler runs without    *)
(* interruption up to its next await, so every action below is one such    *)
(* run.  A handler that is suspended at an await occupies a slot.          *)
(*                                                                         *)
(* Each service has its own specification (SpecProduct, SpecAuth,          *)
(* SpecOrder, SpecGateway): the services share no state.                   *)
(***************************************************************************)
EXTENDS Integers, Sequences, FiniteSets, TLC

VARIABLES
    now,                \* the wall clock, in milliseconds (Date.now(), new Date())
    \* ---- product-service (src/unnamed/part_000, lines 12-269)
    prodReadyState,     \* mongoose.connection.readyState: 0 disconnected, 1 connected, 2 connecting
    prodIsMongoConnected, \* let isMongoConnected
    seedPc,             \* seedPc[k]: position of seedInitialProducts() in instance k of the
                        \* service, "idle", "count", "insert", "done"; instance 1 is the
                        \* process whose handlers are modelled
    inMemoryProducts,   \* let inMemoryProducts = [...]
    nextProductId,      \* let nextProductId = 4
    dbProducts,         \* the products collection of the database
    dbNextOid,          \* number of ObjectIds generated so far for products
    prodSlots,          \* product handlers suspended at an await
    prodReqs,           \* number of product requests received
    prodResp,           \* the last response the product service sent
    \* ---- auth-service (src/Jenkinsfile, lines 173-266 and 268-393)
    authVariant,        \* which index.js runs: "strict" (173-266) or "fallback" (268-393)
    authAlive,          \* FALSE once process.exit(1) was called
    authReadyState,     \* mongoose.connection.readyState
    authIsMongoConnected, \* let isMongoConnected (also: the connection was established once)
    inMemoryUsers,      \* const inMemoryUsers = []
    dbUsers,            \* the users collection of the database
    authSlots,          \* auth handlers suspended at an await
    authReqs,           \* number of auth requests received
    authResp,           \* the last response the auth service sent
    authRegistered,     \* history: the registrations answered 201
    \* ---- order-service (src/unnamed/part_003, lines 1-179)
    orderConn,          \* "loading", then MongoClient.connect: "nouri", "connecting",
                        \* "connected", "failed"
    inMemoryOrders,     \* let inMemoryOrders = []
    dbOrders,           \* the orders collection of the database
    orderSlots,         \* order handlers suspended at an await
    orderReqs,          \* number of order requests received
    orderResp,          \* the last response the order service sent
    \* ---- api-gateway (src/api-gateway/index.js)
    gwHpm,              \* major version of http-proxy-middleware that require()
                        \* resolved to; 0 before the module has loaded
    gwRoutes,           \* the proxy routes app.use() put on the middleware stack
    gwSlots,            \* requests handed to a proxy and not yet answered
    gwReqs,             \* number of requests the gateway received
    gwLast,             \* history: the last request and where it was forwarded
    gwResp,             \* the last response the gateway sent to a caller
    \* ---- two processes of the product and order services given the same
    \* requests: one that never connects, one connected (and seeded) throughout
    twinMem,            \* inMemoryProducts, nextProductId, inMemoryOrders of the first
    twinDb,             \* the products and orders collections of the second
    twinReqs,           \* number of requests given to the two
    twinResp            \* the last request and the response of each

prodVars == <<prodReadyState, prodIsMongoConnected, seedPc, inMemoryProducts,
              nextProductId, dbProducts, dbNextOid, prodSlots, prodReqs, prodResp>>

authVars == <<authVariant, authAlive, authReadyState, authIsMongoConnected,
              inMemoryUsers, dbUsers, authSlots, authReqs, authResp, authRegistered>>

orderVars == <<orderConn, inMemoryOrders, dbOrders, orderSlots, orderReqs, orderResp>>

gwVars == <<gwHpm, gwRoutes, gwSlots, gwReqs, gwLast, gwResp>>

twinVars == <<twinMem, twinDb, twinReqs, twinResp>>

vars == <<now, prodVars, authVars, orderVars, gwVars, twinVars>>

\* What a step of one service leaves alone.
nonProductVars == <<authVars, orderVars, gwVars, twinVars>>
nonAuthVars == <<prodVars, orderVars, gwVars, twinVars>>
nonOrderVars == <<prodVars, authVars, gwVars, twinVars>>
nonGatewayVars == <<prodVars, authVars, orderVars, twinVars>>
nonTwinVars == <<prodVars, authVars, orderVars, gwVars>>

(***************************************************************************)
(* Bounds of the model.                                                    *)
(***************************************************************************)
MaxClock == 2
MaxProductInFlight == 1
MaxProductReqs == 2
MaxAuthInFlight == 2
MaxAuthReqs == 2
MaxOrderInFlight == 1
MaxOrderReqs == 2
MaxGatewayInFlight == 1
MaxGatewayReqs == 2
MaxTwinReqs == 2
MaxInstances == 2

ProductSlots == 1..MaxProductInFlight
Instances == 1..MaxInstances
AuthSlots == 1..MaxAuthInFlight
OrderSlots == 1..MaxOrderInFlight
GatewaySlots == 1..MaxGatewayInFlight

(***************************************************************************)
(* JavaScript values.  A number is held in hundredths (299.99 is 29999),   *)
(* so that parseInt truncates and price * quantity stays exact when one    *)
(* factor is whole.                                                        *)
(***************************************************************************)
Undefined == [t |-> "undefined", v |-> 0, s |-> ""]
NaN == [t |-> "NaN", v |-> 0, s |-> ""]
Num(c) == [t |-> "number", v |-> c, s |-> ""]
Whole(n) == Num(100 * n)
Str(str) == [t |-> "string", v |-> 0, s |-> str]
Date(ms) == [t |-> "date", v |-> ms, s |-> ""]
\* A JavaScript array: a request's items, or the body of a list response.
Array(items) == [t |-> "array", v |-> 0, s |-> "", a |-> items]

\* !x of JavaScript: undefined, NaN, 0 and "" are falsy.
Falsy(x) ==
    \/ x.t \in {"undefined", "NaN"}
    \/ x.t = "number" /\ x.v = 0
    \/ x.t = "string" /\ x.s = ""

\* a || b
JsOr(a, b) == IF Falsy(a) THEN b ELSE a

\* Truncation toward zero of a number held in hundredths.
Trunc(c) == IF c >= 0 THEN 100 * (c \div 100) ELSE 0 - 100 * ((0 - c) \div 100)

\* The numeric strings of the model and what they denote, in hundredths.
NumericStrings == {"7", "2.5"}
StringValue(s) == IF s = "7" THEN 700 ELSE 250

\* parseFloat(x): a number is itself, a string is its leading number, else NaN.
parseFloat(x) ==
    IF x.t = "number" THEN x
    ELSE IF x.t = "string" /\ x.s \in NumericStrings THEN Num(StringValue(x.s))
    ELSE NaN

\* parseInt(x): the integer part of what parseFloat reads.
parseInt(x) ==
    IF x.t = "number" THEN Num(Trunc(x.v))
    ELSE IF x.t = "string" /\ x.s \in NumericStrings THEN Num(Trunc(StringValue(x.s)))
    ELSE NaN

\* String(n) for the small naturals the identifier counter reaches.
DecimalStrings == <<"1", "2", "3", "4", "5", "6", "7", "8", "9", "10", "11", "12">>
String(n) == DecimalStrings[n]

\* The n-th ObjectId the driver generates, as its hex string.
ObjectIdStrings == <<"o1", "o2", "o3", "o4", "o5", "o6", "o7", "o8", "o9", "o10", "o11", "o12">>
ObjectIdOf(n) == ObjectIdStrings[n]
\* ObjectId.isValid / mongoose's cast of an id: only a well-formed id passes.
ObjectIdIsValid(id) == \E n \in 1..Len(ObjectIdStrings) : ObjectIdStrings[n] = id

\* Array.prototype.findIndex on _id; 0 stands for -1 (indexes start at 1 here).
FindIndexById(arr, id) ==
    IF \E i \in 1..Len(arr) : arr[i]._id = id
    THEN CHOOSE i \in 1..Len(arr) :
            arr[i]._id = id /\ \A j \in 1..(i - 1) : arr[j]._id # id
    ELSE 0

\* Array.prototype.splice(i, 1)
Splice(arr, i) == [k \in 1..(Len(arr) - 1) |-> IF k < i THEN arr[k] ELSE arr[k + 1]]

Idle == [pc |-> "idle"]
\* A new request takes the lowest free slot (the slots are interchangeable).
IsFreeSlot(slots, s) == slots[s] = Idle /\ \A r \in 1..(s - 1) : slots[r] # Idle
InternalErrorUnavailable == [status |-> 503, body |-> [message |-> "Service unavailable"]]
\* The catch of every handler: res.status(500).json({ message: 'Internal server error' })
InternalError == [status |-> 500, body |-> [message |-> "Internal server error"]]

(***************************************************************************)
(* product-service                                                         *)
(***************************************************************************)
\* The three products of the in-memory array and of seedInitialProducts.
SeedFields == <<
    [name |-> Str("Wireless Headphones"),
     description |-> Str("Premium noise-canceling wireless headphones"),
     price |-> Num(29999), stock |-> Whole(50)],
    [name |-> Str("Smart Watch"),
     description |-> Str("Fitness tracking smart watch with heart rate monitor"),
     price |-> Num(19999), stock |-> Whole(100)],
    [name |-> Str("Laptop Stand"),
     description |-> Str("Ergonomic aluminum laptop stand"),
     price |-> Num(4999), stock |-> Whole(75)] >>

\* A stored product: the four fields, its identifier and its two dates.
ProductDoc(id, f, created) ==
    [_id |-> id, name |-> f.name, description |-> f.description, price |-> f.price,
     stock |-> f.stock, createdAt |-> created, updatedAt |-> Undefined]

InitialInMemoryProducts ==
    [i \in 1..3 |-> ProductDoc(String(i), SeedFields[i], Date(1))]

\* A validation that forgets the price.
CreateRejectedNameOnly(body) == Falsy(body.name)

\* if (!name || !price) return 400
CreateRejected(body) == Falsy(body.name) \/ Falsy(body.price)

\* The fields both branches of the create handler store.
NewProductFields(body) ==
    [name |-> body.name, description |-> body.description,
     price |-> parseFloat(body.price), stock |-> JsOr(parseInt(body.stock), Whole(0))]

\* The schema's cast on save: a required name, a price that casts to a Number.
SchemaAccepts(f) == ~Falsy(f.name) /\ f.price.t = "number" /\ f.stock.t = "number"

Absent == [t |-> "absent", v |-> 0, s |-> ""]

\* updateData of the update handler; Absent marks a key that is not set.
UpdateData(body, at) ==
    [name |-> IF ~Falsy(body.name) THEN body.name ELSE Absent,
     description |-> IF body.description # Undefined THEN body.description ELSE Absent,
     price |-> IF ~Falsy(body.price) THEN parseFloat(body.price) ELSE Absent,
     stock |-> IF body.stock # Undefined THEN parseInt(body.stock) ELSE Absent,
     updatedAt |-> at]

\* { ...doc, ...updateData }
Spread(doc, upd) ==
    [k \in DOMAIN doc |-> IF k \in DOMAIN upd /\ upd[k] # Absent THEN upd[k] ELSE doc[k]]

\* The update's cast in the database: a NaN does not cast to a Number.
UpdateCasts(upd) == upd.price # NaN /\ upd.stock # NaN

NoBody == [name |-> Undefined, description |-> Undefined, price |-> Undefined,
           stock |-> Undefined]


\* What a request to the product service carries.
ProdRequest(op, id, body) == [id |-> id, body |-> body, op |-> op]

ProdResponse(n, req, backend, status, body) ==
    [n |-> n, status |-> status, body |-> body, req |-> req, backend |-> backend]

NotFound == [message |-> "Product not found"]

\* An identifier taken from the length of the array.
NewProductIdFromLength(products, nextId) == String(Len(products) + 1)

\* _id: String(nextProductId++), the value before the increment.
NewProductId(products, nextId) == String(nextId)

\* The in-memory branch of each handler: the response and the new array and counter.
MemProducts(req, products, nextId, at) ==
    LET idx == FindIndexById(products, req.id)
        same(status, body) ==
            [status |-> status, body |-> body, products |-> products, nextId |-> nextId]
    IN  CASE req.op = "list" -> same(200, Array(products))
          [] req.op = "get" ->
                IF idx = 0 THEN same(404, NotFound) ELSE same(200, products[idx])
          [] req.op = "create" ->
                LET newProduct == ProductDoc(NewProductId(products, nextId),
                                             NewProductFields(req.body), Date(at))
                IN  [status |-> 201,
                     body |-> [message |-> "Product created", productId |-> newProduct._id],
                     products |-> Append(products, newProduct),
                     nextId |-> nextId + 1]
          [] req.op = "update" ->
                IF idx = 0 THEN same(404, NotFound)
                ELSE LET merged == Spread(products[idx], UpdateData(req.body, Date(at)))
                     IN  [status |-> 200,
                          body |-> [message |-> "Product updated", product |-> merged],
                          products |-> [products EXCEPT ![idx] = merged],
                          nextId |-> nextId]
          [] req.op = "delete" ->
                IF idx = 0 THEN same(404, NotFound)
                ELSE [status |-> 200, body |-> [message |-> "Product deleted"],
                      products |-> Splice(products, idx), nextId |-> nextId]

\* The database branch of each handler, run when the awaited call returns: the
\* response and the new collection.  An id that is no ObjectId, a document the
\* schema rejects and an update that does not cast make the call throw, which
\* the handler's catch answers 500.
DbProducts(req, coll, nextOid, at) ==
    LET idx == FindIndexById(coll, req.id)
        same(status, body) ==
            [status |-> status, body |-> body, coll |-> coll, nextOid |-> nextOid]
        threw == same(InternalError.status, InternalError.body)
    IN  CASE req.op = "list" -> same(200, Array(coll))
          [] req.op = "get" ->
                IF ~ObjectIdIsValid(req.id) THEN threw
                ELSE IF idx = 0 THEN same(404, NotFound) ELSE same(200, coll[idx])
          [] req.op = "create" ->
                LET f == NewProductFields(req.body)
                    doc == ProductDoc(ObjectIdOf(nextOid + 1), f, Date(at))
                IN  IF ~SchemaAccepts(f) THEN threw
                    ELSE [status |-> 201,
                          body |-> [message |-> "Product created", productId |-> doc._id],
                          coll |-> Append(coll, doc), nextOid |-> nextOid + 1]
          [] req.op = "update" ->
                LET upd == UpdateData(req.body, Date(at))
                IN  IF ~ObjectIdIsValid(req.id) \/ ~UpdateCasts(upd) THEN threw
                    ELSE IF idx = 0 THEN same(404, NotFound)
                    ELSE LET merged == Spread(coll[idx], upd)
                         IN  [status |-> 200,
                              body |-> [message |-> "Product updated", product |-> merged],
                              coll |-> [coll EXCEPT ![idx] = merged], nextOid |-> nextOid]
          [] req.op = "delete" ->
                IF ~ObjectIdIsValid(req.id) THEN threw
                ELSE IF idx = 0 THEN same(404, NotFound)
                ELSE [status |-> 200, body |-> [message |-> "Product deleted"],
                      coll |-> Splice(coll, idx), nextOid |-> nextOid]

\* ---- the inputs of the model
\* A request body: the four fields the handlers read.
Body(name, description, price, stock) ==
    [name |-> name, description |-> description, price |-> price, stock |-> stock]

CreateBodies ==
    {Body(Str("Mouse"), Undefined, Num(150), Undefined),    \* no stock given
     Body(Str("Mouse"), Str("d"), Str("2.5"), Num(250)),    \* price "2.5", stock 2.5
     Body(Str("Mouse"), Undefined, Num(150), Whole(-1)),    \* stock -1
     Body(Str("Mouse"), Undefined, Num(0), Undefined),      \* price 0
     Body(Str(""), Undefined, Num(150), Undefined),         \* name ""
     Body(Undefined, Undefined, Num(150), Whole(2)),        \* no name
     Body(Str("Mouse"), Undefined, Undefined, Whole(2))}    \* no price

UpdateBodies ==
    {Body(Str("Kb"), Undefined, Num(999), Whole(3)),        \* all but description
     Body(Undefined, Str("d"), Whole(0), Undefined),        \* description, price 0
     Body(Undefined, Undefined, Undefined, Str("abc")),     \* stock "abc"
     Body(Undefined, Undefined, Undefined, Undefined)}      \* nothing

\* "1" is a seeded in-memory id (and no ObjectId), "4" the first in-memory id
\* issued, "o4" the first ObjectId issued after seeding.
ProductIdInputs == {"1", "4", "o4"}

\* ---- the connection to the database
\* const MONGODB_URI = process.env.MONGODB_URI || 'mongodb://localhost:27017/ecommerce'
ProductMongoUri(env) == JsOr(env, Str("mongodb://localhost:27017/ecommerce"))

\* mongoose.connect(...).then(...): connected, and seeding starts.
ProdConnected ==
    /\ prodReadyState = 2
    /\ prodReadyState' = 1
    /\ prodIsMongoConnected' = TRUE
    /\ seedPc' = [seedPc EXCEPT ![1] = "count"]
    /\ UNCHANGED <<nonProductVars, now, inMemoryProducts, nextProductId, dbProducts, dbNextOid,
                   prodSlots, prodReqs, prodResp>>

\* mongoose.connect(...).catch(...): the service continues on the in-memory array.
ProdConnectFailed ==
    /\ prodReadyState = 2
    /\ prodReadyState' = 0
    /\ UNCHANGED <<nonProductVars, now, prodIsMongoConnected, seedPc, inMemoryProducts, nextProductId,
                   dbProducts, dbNextOid, prodSlots, prodReqs, prodResp>>

\* An established connection is lost; the driver reconnects it later.
ProdConnectionLost ==
    /\ prodReadyState = 1
    /\ prodReadyState' = 0
    /\ UNCHANGED <<nonProductVars, now, prodIsMongoConnected, seedPc, inMemoryProducts, nextProductId,
                   dbProducts, dbNextOid, prodSlots, prodReqs, prodResp>>

ProdReconnected ==
    /\ prodReadyState = 0 /\ prodIsMongoConnected
    /\ prodReadyState' = 1
    /\ UNCHANGED <<nonProductVars, now, prodIsMongoConnected, seedPc, inMemoryProducts, nextProductId,
                   dbProducts, dbNextOid, prodSlots, prodReqs, prodResp>>

\* Another instance of the service starts and connects to the same database:
\* mongoose.connect(...).then(...) calls seedInitialProducts.  Of the other
\* instances only the seeding is modelled.
InstanceConnected(k) ==
    /\ k # 1
    /\ seedPc[k] = "idle"
    /\ seedPc' = [seedPc EXCEPT ![k] = "count"]
    /\ UNCHANGED <<nonProductVars, now, prodReadyState, prodIsMongoConnected, inMemoryProducts,
                   nextProductId, dbProducts, dbNextOid, prodSlots, prodReqs, prodResp>>

\* seedInitialProducts: const count = await Product.countDocuments()
SeedCount(k) ==
    /\ seedPc[k] = "count" /\ (k = 1 => prodReadyState = 1)
    /\ seedPc' = [seedPc EXCEPT ![k] = IF Len(dbProducts) = 0 THEN "insert" ELSE "done"]
    /\ UNCHANGED <<nonProductVars, now, prodReadyState, prodIsMongoConnected, inMemoryProducts,
                   nextProductId, dbProducts, dbNextOid, prodSlots, prodReqs, prodResp>>

\* seedInitialProducts: await Product.insertMany([...])
SeedInsert(k) ==
    /\ seedPc[k] = "insert" /\ (k = 1 => prodReadyState = 1)
    /\ seedPc' = [seedPc EXCEPT ![k] = "done"]
    /\ dbProducts' = dbProducts \o
            [i \in 1..3 |-> ProductDoc(ObjectIdOf(dbNextOid + i), SeedFields[i], Date(now))]
    /\ dbNextOid' = dbNextOid + 3
    /\ UNCHANGED <<nonProductVars, now, prodReadyState, prodIsMongoConnected, inMemoryProducts,
                   nextProductId, prodSlots, prodReqs, prodResp>>

\* ---- the handlers
\* A request arrives and its handler runs to its first await (database branch) or
\* to its response (validation failure, in-memory branch).
ProdHandle(s, req) ==
    /\ IsFreeSlot(prodSlots, s)
    /\ prodReqs < MaxProductReqs
    /\ prodReqs' = prodReqs + 1
    /\ IF req.op = "create" /\ CreateRejected(req.body)
       THEN /\ prodResp' = ProdResponse(prodReqs + 1, req, "none", 400,
                                        [message |-> "Name and price are required"])
            /\ UNCHANGED <<inMemoryProducts, nextProductId, prodSlots>>
       ELSE IF prodReadyState = 1
       THEN /\ prodSlots' = [prodSlots EXCEPT ![s] =
                                [n |-> prodReqs + 1, pc |-> "db", at |-> now, req |-> req]]
            /\ UNCHANGED <<inMemoryProducts, nextProductId, prodResp>>
       ELSE LET r == MemProducts(req, inMemoryProducts, nextProductId, now)
            IN  /\ inMemoryProducts' = r.products
                /\ nextProductId' = r.nextId
                /\ prodResp' = ProdResponse(prodReqs + 1, req, "memory", r.status, r.body)
                /\ UNCHANGED prodSlots
    /\ UNCHANGED <<nonProductVars, now, prodReadyState, prodIsMongoConnected, seedPc, dbProducts, dbNextOid>>

ProdGetAll(s) == ProdHandle(s, ProdRequest("list", "", NoBody))
ProdGetById(s, id) == ProdHandle(s, ProdRequest("get", id, NoBody))
ProdPost(s, body) == ProdHandle(s, ProdRequest("create", "", body))
ProdPut(s, id, body) == ProdHandle(s, ProdRequest("update", id, body))
ProdDelete(s, id) == ProdHandle(s, ProdRequest("delete", id, NoBody))

\* The awaited database call returns (or throws) and the handler responds.
ProdDbReturn(s) ==
    /\ prodSlots[s].pc = "db"
    /\ prodReadyState = 1
    /\ LET h == prodSlots[s]
           r == DbProducts(h.req, dbProducts, dbNextOid, h.at)
       IN  /\ dbProducts' = r.coll
           /\ dbNextOid' = r.nextOid
           /\ prodResp' = ProdResponse(h.n, h.req, "db", r.status, r.body)
    /\ prodSlots' = [prodSlots EXCEPT ![s] = Idle]
    /\ UNCHANGED <<nonProductVars, now, prodReadyState, prodIsMongoConnected, seedPc, inMemoryProducts,
                   nextProductId, prodReqs>>

\* The awaited database call rejects for a reason outside the request (the
\* connection drops, the server times out); the handler's catch answers 500.
ProdDbThrow(s) ==
    /\ prodSlots[s].pc = "db"
    /\ LET h == prodSlots[s]
       IN  prodResp' = ProdResponse(h.n, h.req, "db", InternalError.status, InternalError.body)
    /\ prodSlots' = [prodSlots EXCEPT ![s] = Idle]
    /\ UNCHANGED <<nonProductVars, now, prodReadyState, prodIsMongoConnected, seedPc, inMemoryProducts,
                   nextProductId, dbProducts, dbNextOid, prodReqs>>

(***************************************************************************)
(* auth-service                                                            *)
(***************************************************************************)
\* bcrypt.hash(password, 10) and bcrypt.compare(password, hash)
BcryptHash(password) == [t |-> "bcrypt", v |-> 0, s |-> password.s]
\* A compare that accepts every password.
BcryptCompareAlways(password, hash) == TRUE
BcryptCompare(password, hash) == hash.t = "bcrypt" /\ hash.s = password.s

\* A lookup that never finds the user.
FindIndexByEmailNever(arr, email) == 0
\* inMemoryUsers.find(u => u.email === email) and User.findOne({ email }): the
\* index of the first user with that email, 0 for none.
FindIndexByEmail(arr, email) ==
    IF \E i \in 1..Len(arr) : arr[i].email = email
    THEN CHOOSE i \in 1..Len(arr) :
            arr[i].email = email /\ \A j \in 1..(i - 1) : arr[j].email # email
    ELSE 0

\* if (!email || !password) return 400
CredentialsMissing(req) == Falsy(req.email) \/ Falsy(req.password)

\* Whether the handler takes the database branch: the strict variant always does,
\* the fallback variant when mongoose.connection.readyState === 1.
AuthUsesDb == authVariant = "strict" \/ authReadyState = 1

AuthRequest(op, email, password) == [op |-> op, password |-> password, email |-> email]

\* A response; taken: the email had been registered (answered 201) on this backend
\* when the request arrived; stored: a user with the email was in the store when
\* the handler's last step ran.
AuthResponse(n, req, backend, taken, stored, status, body) ==
    [n |-> n, status |-> status, body |-> body, req |-> req, backend |-> backend,
     taken |-> taken, stored |-> stored]

RegisteredOn(backend, email) ==
    \E r \in authRegistered : r.backend = backend /\ r.email = email

\* A token signed over the email alone.
JwtSignEmailOnly(email, userId) == [email |-> email, userId |-> Undefined, expiresIn |-> "1h"]
\* jwt.sign({ email, userId }, SECRET_KEY, { expiresIn: '1h' })
JwtSign(email, userId) == [email |-> email, userId |-> userId, expiresIn |-> "1h"]

\* The end of the login handler, once the user was looked up (idx = 0: none):
\* 400 for no user, 401 when the compare fails, else 200 with the token.
LoginOutcome(users, idx, req) ==
    IF idx = 0 THEN [status |-> 400, body |-> [message |-> "User not found"]]
    ELSE IF ~BcryptCompare(req.password, users[idx].password)
    THEN [status |-> 401, body |-> [message |-> "Invalid credentials"]]
    ELSE [status |-> 200,
          body |-> [email |-> users[idx].email,
                    token |-> JwtSign(users[idx].email,
                                      JsOr(users[idx]._id, req.email))]]

\* ---- the connection to the database
AuthConnected ==
    /\ authAlive /\ authReadyState = 2
    /\ authReadyState' = 1
    /\ authIsMongoConnected' = TRUE
    /\ UNCHANGED <<nonAuthVars, now, authVariant, authAlive, inMemoryUsers, dbUsers,
                   authSlots, authReqs, authResp, authRegistered>>

\* .catch: the strict variant calls process.exit(1), the fallback variant goes on.
AuthConnectFailed ==
    /\ authAlive /\ authReadyState = 2
    /\ authReadyState' = 0
    /\ authAlive' = (authVariant = "fallback")
    /\ authSlots' = IF authVariant = "fallback" THEN authSlots
                    ELSE [s \in AuthSlots |-> Idle]
    /\ UNCHANGED <<nonAuthVars, now, authVariant, authIsMongoConnected, inMemoryUsers,
                   dbUsers, authReqs, authResp, authRegistered>>

AuthConnectionLost ==
    /\ authAlive /\ authReadyState = 1
    /\ authReadyState' = 0
    /\ UNCHANGED <<nonAuthVars, now, authVariant, authAlive, authIsMongoConnected,
                   inMemoryUsers, dbUsers, authSlots, authReqs, authResp, authRegistered>>

AuthReconnected ==
    /\ authAlive /\ authReadyState = 0 /\ authIsMongoConnected
    /\ authReadyState' = 1
    /\ UNCHANGED <<nonAuthVars, now, authVariant, authAlive, authIsMongoConnected,
                   inMemoryUsers, dbUsers, authSlots, authReqs, authResp, authRegistered>>

\* ---- POST /register
\* The handler up to its first await: the validation, then User.findOne (database
\* branch) or the array lookup and bcrypt.hash (in-memory branch).
AuthRegister(s, email, password) ==
    LET req == AuthRequest("register", email, password)
        n == authReqs + 1
        idx == FindIndexByEmail(inMemoryUsers, email)
    IN  /\ authAlive /\ IsFreeSlot(authSlots, s)
        /\ authReqs < MaxAuthReqs
        /\ authReqs' = n
        /\ IF CredentialsMissing(req)
           THEN /\ authResp' = AuthResponse(n, req, "none", FALSE, FALSE, 400,
                                    [message |-> "Email and password are required"])
                /\ UNCHANGED authSlots
           ELSE IF AuthUsesDb
           THEN /\ authSlots' = [authSlots EXCEPT ![s] =
                        [n |-> n, pc |-> "findOne", at |-> now, req |-> req,
                         backend |-> "db", taken |-> RegisteredOn("db", email)]]
                /\ UNCHANGED authResp
           ELSE IF idx # 0
           THEN /\ authResp' = AuthResponse(n, req, "memory", RegisteredOn("memory", email),
                                    TRUE, 400, [message |-> "User already exists"])
                /\ UNCHANGED authSlots
           ELSE /\ authSlots' = [authSlots EXCEPT ![s] =
                        [n |-> n, pc |-> "hash", at |-> now, req |-> req,
                         backend |-> "memory", taken |-> RegisteredOn("memory", email)]]
                /\ UNCHANGED authResp
        /\ UNCHANGED <<nonAuthVars, now, authVariant, authAlive, authReadyState,
                       authIsMongoConnected, inMemoryUsers, dbUsers, authRegistered>>

\* In-memory branch: bcrypt.hash resolved; push the user and answer 201.
AuthRegisterPush(s) ==
    LET h == authSlots[s]
    IN  /\ authAlive /\ h.pc = "hash"
        /\ inMemoryUsers' = Append(inMemoryUsers,
                [_id |-> Undefined, createdAt |-> Date(now),
                 password |-> BcryptHash(h.req.password), email |-> h.req.email])
        /\ authResp' = AuthResponse(h.n, h.req, "memory", h.taken,
                                    FindIndexByEmail(inMemoryUsers, h.req.email) # 0,
                                    201, [message |-> "User registered successfully"])
        /\ authRegistered' = authRegistered \cup
                {[backend |-> "memory", password |-> h.req.password, email |-> h.req.email]}
        /\ authSlots' = [authSlots EXCEPT ![s] = Idle]
        /\ UNCHANGED <<nonAuthVars, now, authVariant, authAlive, authReadyState,
                       authIsMongoConnected, dbUsers, authReqs>>

\* Database branch: User.findOne returned; 400 if the user exists, else hash and save.
AuthRegisterFindOne(s) ==
    LET h == authSlots[s]
        idx == FindIndexByEmail(dbUsers, h.req.email)
    IN  /\ authAlive /\ h.pc = "findOne" /\ h.req.op = "register"
        /\ authReadyState = 1
        /\ IF idx # 0
           THEN /\ authResp' = AuthResponse(h.n, h.req, "db", h.taken, TRUE, 400,
                                            [message |-> "User already exists"])
                /\ authSlots' = [authSlots EXCEPT ![s] = Idle]
           ELSE /\ authSlots' = [authSlots EXCEPT ![s].pc = "save"]
                /\ UNCHANGED authResp
        /\ UNCHANGED <<nonAuthVars, now, authVariant, authAlive, authReadyState,
                       authIsMongoConnected, inMemoryUsers, dbUsers, authReqs,
                       authRegistered>>

\* Database branch: user.save() returned.  The schema's unique index on email
\* makes the insert of a second user with the email throw, which the catch
\* answers 500.
AuthRegisterSave(s) ==
    LET h == authSlots[s]
        idx == FindIndexByEmail(dbUsers, h.req.email)
    IN  /\ authAlive /\ h.pc = "save"
        /\ authReadyState = 1
        /\ IF idx # 0
           THEN /\ authResp' = AuthResponse(h.n, h.req, "db", h.taken, TRUE,
                                            InternalError.status, InternalError.body)
                /\ UNCHANGED <<dbUsers, authRegistered>>
           ELSE /\ dbUsers' = Append(dbUsers,
                        [_id |-> Str(ObjectIdOf(Len(dbUsers) + 1)), createdAt |-> Date(h.at),
                         password |-> BcryptHash(h.req.password), email |-> h.req.email])
                /\ authResp' = AuthResponse(h.n, h.req, "db", h.taken, FALSE, 201,
                                            [message |-> "User registered successfully"])
                /\ authRegistered' = authRegistered \cup
                        {[backend |-> "db", password |-> h.req.password,
                          email |-> h.req.email]}
        /\ authSlots' = [authSlots EXCEPT ![s] = Idle]
        /\ UNCHANGED <<nonAuthVars, now, authVariant, authAlive, authReadyState,
                       authIsMongoConnected, inMemoryUsers, authReqs>>

\* ---- POST /login
\* The handler up to User.findOne (database branch) or to its response
\* (validation, in-memory lookup and compare).
AuthLogin(s, email, password) ==
    LET req == AuthRequest("login", email, password)
        n == authReqs + 1
        idx == FindIndexByEmail(inMemoryUsers, email)
        out == LoginOutcome(inMemoryUsers, idx, req)
    IN  /\ authAlive /\ IsFreeSlot(authSlots, s)
        /\ authReqs < MaxAuthReqs
        /\ authReqs' = n
        /\ IF CredentialsMissing(req)
           THEN /\ authResp' = AuthResponse(n, req, "none", FALSE, FALSE, 400,
                                    [message |-> "Email and password are required"])
                /\ UNCHANGED authSlots
           ELSE IF AuthUsesDb
           THEN /\ authSlots' = [authSlots EXCEPT ![s] =
                        [n |-> n, pc |-> "findOne", at |-> now, req |-> req,
                         backend |-> "db", taken |-> RegisteredOn("db", email)]]
                /\ UNCHANGED authResp
           ELSE /\ authResp' = AuthResponse(n, req, "memory", RegisteredOn("memory", email),
                                            idx # 0, out.status, out.body)
                /\ UNCHANGED authSlots
        /\ UNCHANGED <<nonAuthVars, now, authVariant, authAlive, authReadyState,
                       authIsMongoConnected, inMemoryUsers, dbUsers, authRegistered>>

\* Database branch: User.findOne returned; compare and answer.
AuthLoginFindOne(s) ==
    LET h == authSlots[s]
        idx == FindIndexByEmail(dbUsers, h.req.email)
        out == LoginOutcome(dbUsers, idx, h.req)
    IN  /\ authAlive /\ h.pc = "findOne" /\ h.req.op = "login"
        /\ authReadyState = 1
        /\ authResp' = AuthResponse(h.n, h.req, "db", h.taken, idx # 0, out.status, out.body)
        /\ authSlots' = [authSlots EXCEPT ![s] = Idle]
        /\ UNCHANGED <<nonAuthVars, now, authVariant, authAlive, authReadyState,
                       authIsMongoConnected, inMemoryUsers, dbUsers, authReqs,
                       authRegistered>>

\* The awaited call (User.findOne, user.save, bcrypt.hash) rejects; the
\* handler's catch answers 500.
AuthThrow(s) ==
    LET h == authSlots[s]
    IN  /\ authAlive /\ h.pc \in {"findOne", "save", "hash"}
        /\ authResp' = AuthResponse(h.n, h.req, h.backend, h.taken, FALSE,
                                    InternalError.status, InternalError.body)
        /\ authSlots' = [authSlots EXCEPT ![s] = Idle]
        /\ UNCHANGED <<nonAuthVars, now, authVariant, authAlive, authReadyState,
                       authIsMongoConnected, inMemoryUsers, dbUsers, authReqs,
                       authRegistered>>

\* The { email, password } bodies of the model.
Credentials ==
    {[password |-> Str("p"), email |-> Str("a@x")],
     [password |-> Str("q"), email |-> Str("a@x")],
     [password |-> Str("p"), email |-> Str("b@x")],
     [password |-> Str(""), email |-> Str("a@x")],
     [password |-> Undefined, email |-> Str("a@x")],
     [password |-> Str("p"), email |-> Undefined]}

InitAuth ==
    /\ authVariant \in {"strict", "fallback"}
    /\ authAlive = TRUE
    /\ authReadyState = 2
    /\ authIsMongoConnected = FALSE
    /\ inMemoryUsers = <<>>
    /\ dbUsers = <<>>
    /\ authSlots = [s \in AuthSlots |-> Idle]
    /\ authReqs = 0
    /\ authResp = [n |-> 0]
    /\ authRegistered = {}

NextAuth ==
    \/ AuthConnected
    \/ AuthConnectFailed
    \/ AuthConnectionLost
    \/ AuthReconnected
    \/ \E s \in AuthSlots, c \in Credentials : AuthRegister(s, c.email, c.password)
    \/ \E s \in AuthSlots : AuthRegisterPush(s)
    \/ \E s \in AuthSlots : AuthRegisterFindOne(s)
    \/ \E s \in AuthSlots : AuthRegisterSave(s)
    \/ \E s \in AuthSlots, c \in Credentials : AuthLogin(s, c.email, c.password)
    \/ \E s \in AuthSlots : AuthLoginFindOne(s)

(***************************************************************************)
(* order-service                                                           *)
(***************************************************************************)

\* a + b and a * b of JavaScript on numbers held in hundredths.
Plus(a, b) == IF a.t = "number" /\ b.t = "number" THEN Num(a.v + b.v) ELSE NaN
Times(a, b) == IF a.t = "number" /\ b.t = "number" THEN Num((a.v * b.v) \div 100) ELSE NaN

\* items.reduce((sum, item) => sum + (item.price * (item.quantity || 1)), 0)
RECURSIVE ReduceTotal(_)
ReduceTotal(items) ==
    IF items = <<>> THEN Whole(0)
    ELSE Plus(ReduceTotal(SubSeq(items, 1, Len(items) - 1)),
              Times(items[Len(items)].price, JsOr(items[Len(items)].quantity, Whole(1))))

\* A validation that lets the empty array through.
ItemsRejectedUnlessEmpty(items) == Falsy(items) \/ items.t # "array"
\* if (!items || !Array.isArray(items) || items.length === 0) return 400
ItemsRejected(items) == Falsy(items) \/ items.t # "array" \/ Len(items.a) = 0

\* The order document both branches of the create handler store.
OrderDoc(id, items, userEmail, total, at) ==
    [items |-> items, _id |-> id, status |-> Str("pending"), createdAt |-> Date(at),
     updatedAt |-> Undefined, userEmail |-> JsOr(userEmail, Str("guest")),
     total |-> total]

\* An update that replaces the document instead of setting two fields.
SetStatusReplacing(order, status, at) ==
    [k \in DOMAIN order |->
        IF k = "status" THEN status
        ELSE IF k = "updatedAt" THEN Date(at)
        ELSE IF k \in {"_id", "createdAt"} THEN order[k]
        ELSE Undefined]
\* $set: { status, updatedAt: new Date() } and order.status = status; order.updatedAt = new Date()
SetStatus(order, status, at) ==
    [order EXCEPT !.status = status, !.updatedAt = Date(at)]

\* [...orders].sort((a, b) => b.createdAt - a.createdAt): stable, newest first.
RECURSIVE SortNewestFirst(_)
SortNewestFirst(orders) ==
    IF orders = <<>> THEN <<>>
    ELSE LET rest == SortNewestFirst(SubSeq(orders, 1, Len(orders) - 1))
             x == orders[Len(orders)]
             k == Cardinality({i \in 1..Len(rest) : rest[i].createdAt.v >= x.createdAt.v})
         IN  SubSeq(rest, 1, k) \o <<x>> \o SubSeq(rest, k + 1, Len(rest))

OrderRequest(op, id, body) == [id |-> id, body |-> body, op |-> op]
OrderBody(items, userEmail, status) ==
    [items |-> items, status |-> status, userEmail |-> userEmail]
OrderResponse(n, req, backend, status, body) ==
    [n |-> n, status |-> status, body |-> body, req |-> req, backend |-> backend]
OrderNotFound == [message |-> "Order not found"]
InvalidOrderId == [message |-> "Invalid order ID format"]

\* The validation that precedes the backend branch: the 400 body, or Undefined.
OrderValidation(req) ==
    IF req.op = "create" /\ ItemsRejected(req.body.items)
    THEN [message |-> "Items are required"]
    ELSE IF req.op = "patch" /\ Falsy(req.body.status)
    THEN [message |-> "Status is required"]
    ELSE Undefined

\* The in-memory branch of each handler: the response and the new array.
MemOrders(req, orders, at) ==
    LET idx == FindIndexById(orders, req.id)
        same(status, body) == [status |-> status, body |-> body, orders |-> orders]
    IN  CASE req.op = "list" -> same(200, Array(SortNewestFirst(orders)))
          [] req.op = "get" ->
                IF idx = 0 THEN same(404, OrderNotFound) ELSE same(200, orders[idx])
          [] req.op = "create" ->
                LET total == ReduceTotal(req.body.items.a)
                    newOrder == OrderDoc(String(at), req.body.items, req.body.userEmail,
                                         total, at)
                IN  [status |-> 201,
                     body |-> [message |-> "Order created", total |-> total,
                               orderId |-> newOrder._id],
                     orders |-> Append(orders, newOrder)]
          [] req.op = "patch" ->
                IF idx = 0 THEN same(404, OrderNotFound)
                ELSE [status |-> 200, body |-> [message |-> "Order status updated"],
                      orders |-> [orders EXCEPT ![idx] = SetStatus(@, req.body.status, at)]]

\* What the database branch does before its await: the id check of get and patch.
OrderIdRejected(req) == req.op \in {"get", "patch"} /\ ~ObjectIdIsValid(req.id)

\* The database branch of each handler when the awaited call returns; total and
\* the dates were computed before the await.
DbOrders(req, coll, total, at) ==
    LET idx == FindIndexById(coll, req.id)
        same(status, body) == [status |-> status, body |-> body, coll |-> coll]
    IN  CASE req.op = "list" -> same(200, Array(SortNewestFirst(coll)))
          [] req.op = "get" ->
                IF idx = 0 THEN same(404, OrderNotFound) ELSE same(200, coll[idx])
          [] req.op = "create" ->
                LET doc == OrderDoc(ObjectIdOf(Len(coll) + 1), req.body.items,
                                    req.body.userEmail, total, at)
                IN  [status |-> 201,
                     body |-> [message |-> "Order created", total |-> total,
                               orderId |-> doc._id],
                     coll |-> Append(coll, doc)]
          [] req.op = "patch" ->
                IF idx = 0 THEN same(404, OrderNotFound)
                ELSE [status |-> 200, body |-> [message |-> "Order status updated"],
                      coll |-> [coll EXCEPT ![idx] = SetStatus(@, req.body.status, at)]]

\* ---- the connection to the database
\* The module loads: if (MONGODB_URI) MongoClient.connect(...), then app.listen.
OrderLoad ==
    /\ orderConn = "loading"
    /\ \E uri \in BOOLEAN : orderConn' = IF uri THEN "connecting" ELSE "nouri"
    /\ UNCHANGED <<nonOrderVars, now, inMemoryOrders, dbOrders, orderSlots, orderReqs,
                   orderResp>>

\* .then: ordersCollection is assigned.
OrderConnected ==
    /\ orderConn = "connecting"
    /\ orderConn' = "connected"
    /\ UNCHANGED <<nonOrderVars, now, inMemoryOrders, dbOrders, orderSlots, orderReqs,
                   orderResp>>

\* .catch: ordersCollection stays undefined.
OrderConnectFailed ==
    /\ orderConn = "connecting"
    /\ orderConn' = "failed"
    /\ UNCHANGED <<nonOrderVars, now, inMemoryOrders, dbOrders, orderSlots, orderReqs,
                   orderResp>>

\* ---- the handlers
\* A request arrives and its handler runs to its first await (database branch) or
\* to its response (validation failure, rejected id, in-memory branch).
OrderHandle(s, req) ==
    LET n == orderReqs + 1
    IN  /\ orderConn # "loading"
        /\ IsFreeSlot(orderSlots, s)
        /\ orderReqs < MaxOrderReqs
        /\ orderReqs' = n
        /\ IF OrderValidation(req) # Undefined
           THEN /\ orderResp' = OrderResponse(n, req, "none", 400, OrderValidation(req))
                /\ UNCHANGED <<inMemoryOrders, orderSlots>>
           ELSE IF orderConn = "connected"
           THEN IF OrderIdRejected(req)
                THEN /\ orderResp' = OrderResponse(n, req, "db", 400, InvalidOrderId)
                     /\ UNCHANGED <<inMemoryOrders, orderSlots>>
                ELSE /\ orderSlots' = [orderSlots EXCEPT ![s] =
                            [n |-> n, pc |-> "db", at |-> now, req |-> req,
                             total |-> IF req.op = "create"
                                       THEN ReduceTotal(req.body.items.a) ELSE Undefined]]
                     /\ UNCHANGED <<inMemoryOrders, orderResp>>
           ELSE LET r == MemOrders(req, inMemoryOrders, now)
                IN  /\ inMemoryOrders' = r.orders
                    /\ orderResp' = OrderResponse(n, req, "memory", r.status, r.body)
                    /\ UNCHANGED orderSlots
        /\ UNCHANGED <<nonOrderVars, now, orderConn, dbOrders>>

NoOrderBody == OrderBody(Undefined, Undefined, Undefined)

OrderGetAll(s) == OrderHandle(s, OrderRequest("list", "", NoOrderBody))
OrderGetById(s, id) == OrderHandle(s, OrderRequest("get", id, NoOrderBody))
OrderPost(s, body) == OrderHandle(s, OrderRequest("create", "", body))
OrderPatchStatus(s, id, body) == OrderHandle(s, OrderRequest("patch", id, body))

\* app.get('/health'): answers without touching the stores.
OrderHealth(s, segment) ==
    /\ orderConn # "loading"
    /\ IsFreeSlot(orderSlots, s)
    /\ orderReqs < MaxOrderReqs
    /\ orderReqs' = orderReqs + 1
    /\ orderResp' = OrderResponse(orderReqs + 1, OrderRequest("health", segment, NoOrderBody),
                                  "none", 200, [status |-> "ok", service |-> "order-service"])
    /\ UNCHANGED <<nonOrderVars, now, orderConn, inMemoryOrders, dbOrders, orderSlots>>

\* The GET routes that take a path of one segment, in the order of their
\* registration: app.get('/:id') at line 50, app.get('/health') at line 173.
OrderGetRoutes == <<[path |-> ":id", handler |-> "get"], [path |-> "health", handler |-> "health"]>>

\* Express gives the request to the first route whose path matches; a
\* parameter matches every segment.
FirstMatch(routes, segment) ==
    LET matching == {i \in 1..Len(routes) :
                        routes[i].path = ":id" \/ routes[i].path = segment}
    IN  routes[CHOOSE i \in matching : \A j \in matching : i <= j].handler

\* GET /<segment>
OrderGetPath(s, segment) ==
    IF FirstMatch(OrderGetRoutes, segment) = "health"
    THEN OrderHealth(s, segment)
    ELSE OrderGetById(s, segment)

\* The awaited database call returns and the handler responds.
OrderDbReturn(s) ==
    LET h == orderSlots[s]
        r == DbOrders(h.req, dbOrders, h.total, h.at)
    IN  /\ h.pc = "db"
        /\ dbOrders' = r.coll
        /\ orderResp' = OrderResponse(h.n, h.req, "db", r.status, r.body)
        /\ orderSlots' = [orderSlots EXCEPT ![s] = Idle]
        /\ UNCHANGED <<nonOrderVars, now, orderConn, inMemoryOrders, orderReqs>>

\* A catch that answers 500 and lets the handler go on to its next response.
OrderDbThrowGoesOn(s) ==
    LET h == orderSlots[s]
    IN  /\ h.pc = "db"
        /\ orderResp' = OrderResponse(h.n, h.req, "db", InternalError.status, InternalError.body)
        /\ UNCHANGED <<nonOrderVars, now, orderConn, inMemoryOrders, dbOrders, orderReqs,
                       orderSlots>>

\* The awaited driver call rejects; the handler's catch answers 500.
OrderDbThrow(s) ==
    LET h == orderSlots[s]
    IN  /\ h.pc = "db"
        /\ orderResp' = OrderResponse(h.n, h.req, "db", InternalError.status, InternalError.body)
        /\ orderSlots' = [orderSlots EXCEPT ![s] = Idle]
        /\ UNCHANGED <<nonOrderVars, now, orderConn, inMemoryOrders, dbOrders, orderReqs>>

\* ---- the inputs of the model
Item(price, quantity) == [price |-> price, quantity |-> quantity]

\* The bodies of POST /: items missing, not an array, empty, and arrays whose
\* quantities are positive, missing and zero.
OrderBodies ==
    {OrderBody(Undefined, Str("a@x"), Undefined),
     OrderBody(Str("x"), Undefined, Undefined),
     OrderBody(Array(<<>>), Str("a@x"), Undefined),
     OrderBody(Array(<<Item(Whole(10), Whole(2)), Item(Num(150), Whole(3))>>),
               Str("a@x"), Undefined),
     OrderBody(Array(<<Item(Whole(10), Undefined)>>), Undefined, Undefined),
     OrderBody(Array(<<Item(Whole(10), Whole(0)), Item(Whole(5), Whole(2))>>),
               Str("a@x"), Undefined)}

\* The requests of PATCH /:id/status; "1" and "2" are in-memory ids
\* (String(Date.now())), "o1" is the first ObjectId.
StatusPatches ==
    {[id |-> "1", body |-> OrderBody(Undefined, Undefined, Str("shipped"))],
     [id |-> "o1", body |-> OrderBody(Undefined, Undefined, Str("shipped"))],
     [id |-> "2", body |-> OrderBody(Undefined, Undefined, Str("pending"))],
     [id |-> "1", body |-> OrderBody(Undefined, Undefined, Str(""))],
     [id |-> "1", body |-> NoOrderBody]}

OrderIdInputs == {"1", "2", "o1"}
OrderPathInputs == OrderIdInputs \cup {"health"}

InitOrder ==
    /\ orderConn = "loading"
    /\ inMemoryOrders = <<>>
    /\ dbOrders = <<>>
    /\ orderSlots = [s \in OrderSlots |-> Idle]
    /\ orderReqs = 0
    /\ orderResp = [n |-> 0]

(***************************************************************************)
(* api-gateway.  A path is the sequence of its segments: "/" is << >> and  *)
(* "/products/42" is <<"products", "42">>.                                 *)
(***************************************************************************)
LivenessBody == "API Gateway is running"

\* String.prototype.toLowerCase on the segments of the model.
ToLowerCase(seg) ==
    CASE seg = "Products" -> "products"
      [] OTHER -> seg

\* The routes with the targets of the product and the order service exchanged.
ProxyRoutesExchanged ==
    <<[mount |-> "auth", target |-> "AUTH_SERVICE_URL", rewrite |-> "auth"],
      [mount |-> "products", target |-> "ORDER_SERVICE_URL", rewrite |-> "products"],
      [mount |-> "orders", target |-> "PRODUCT_SERVICE_URL", rewrite |-> "orders"]>>

\* app.use('/auth', ...), app.use('/products', ...), app.use('/orders', ...), in
\* the order of registration; pathRewrite is { '^/<rewrite>': '' }.
ProxyRoutes ==
    <<[mount |-> "auth", target |-> "AUTH_SERVICE_URL", rewrite |-> "auth"],
      [mount |-> "products", target |-> "PRODUCT_SERVICE_URL", rewrite |-> "products"],
      [mount |-> "orders", target |-> "ORDER_SERVICE_URL", rewrite |-> "orders"]>>

\* app.use(mount, fn): Express compares the leading segment of the path with
\* the mount path without regard to case, up to a segment boundary.
MountMatches(route, path) == path # <<>> /\ ToLowerCase(path[1]) = route.mount

\* The first route of the stack whose mount path matches, 0 when none does.
MatchedRoute(routes, path) ==
    LET matching == {i \in 1..Len(routes) : MountMatches(routes[i], path)}
    IN  IF matching = {} THEN 0
        ELSE CHOOSE i \in matching : \A j \in matching : i <= j

\* pathRewrite { '^/prefix': '' }: a case-sensitive match at the start of the
\* url.  No segment of the model extends a prefix ("productsx" is only ever a
\* leading segment, which no mount matches), so the match is on the segment.
PathRewrite(route, url) ==
    IF url # <<>> /\ url[1] = route.rewrite THEN Tail(url) ELSE url

\* The path createProxyMiddleware sends downstream.  Major version 2 rewrites
\* req.originalUrl, the path as received; major version 3 rewrites req.url, from
\* which app.use has already removed the mount path.
ProxiedPath(hpm, route, path) ==
    IF hpm = 2 THEN PathRewrite(route, path) ELSE PathRewrite(route, Tail(path))

\* The headers a client sends; "" stands for a header that is absent.
ClientHeaders ==
    [host |-> "gateway", connection |-> "keep-alive", authorization |-> "Bearer t",
     xForwardedFor |-> ""]

\* The outgoing headers of a proxy created with xfwd: true.
ProxyHeadersXfwd(headers, route) ==
    [headers EXCEPT !.host = route.target, !.connection = "close",
                    !.xForwardedFor = "client address"]

\* The outgoing headers http-proxy builds from the options of index.js:
\* changeOrigin: true sets Host to the host of the target, no agent is given so
\* Connection is set to close, and xfwd is not set so no x-forwarded-* header is
\* added.
ProxyHeaders(headers, route) ==
    [headers EXCEPT !.host = route.target, !.connection = "close"]

\* A root route registered for every method (app.all).
RootHandlesEveryMethod(method) == TRUE

\* app.get('/', ...): GET, and HEAD, which Express serves from the GET route.
RootHandles(method) == method \in {"GET", "HEAD"}

\* A request: POST carries a body, which the gateway does not parse.
GatewayRequest(method, path) ==
    [body |-> IF method = "POST" THEN "json text" ELSE "",
     path |-> path, headers |-> ClientHeaders, method |-> method]
GatewayResponse(n, req, via, status, body, downstream) ==
    [n |-> n, status |-> status, body |-> body, req |-> req, via |-> via,
     downstream |-> downstream]
NoDownstream == [status |-> 0, body |-> ""]

\* The module loads: require() resolves http-proxy-middleware to the installed
\* major version, the three app.use calls register the routes, app.listen.
GatewayLoad ==
    /\ gwHpm = 0
    /\ gwHpm' \in {2, 3}
    /\ gwRoutes' = ProxyRoutes
    /\ UNCHANGED <<nonGatewayVars, now, gwSlots, gwReqs, gwLast, gwResp>>

\* A request runs down the middleware stack: cors() answers every OPTIONS
\* request itself with 204; the first proxy whose mount path matches forwards
\* the request; app.get('/') answers; Express answers 404.
GatewayHandle(s, method, path) ==
    LET n == gwReqs + 1
        req == GatewayRequest(method, path)
        i == MatchedRoute(gwRoutes, path)
        respond(via, status, body) ==
            /\ gwResp' = GatewayResponse(n, req, via, status, body, NoDownstream)
            /\ gwLast' = [n |-> n, req |-> req, forwards |-> <<>>]
            /\ UNCHANGED gwSlots
    IN  /\ gwHpm # 0
        /\ IsFreeSlot(gwSlots, s)
        /\ gwReqs < MaxGatewayReqs
        /\ gwReqs' = n
        /\ IF method = "OPTIONS" THEN respond("cors", 204, "")
           ELSE IF i # 0
           THEN LET forward == [body |-> req.body,
                                path |-> ProxiedPath(gwHpm, gwRoutes[i], path),
                                target |-> gwRoutes[i].target,
                                headers |-> ProxyHeaders(req.headers, gwRoutes[i]),
                                method |-> req.method]
                IN  /\ gwSlots' = [gwSlots EXCEPT ![s] =
                            [n |-> n, pc |-> "proxied", req |-> req, forward |-> forward]]
                    /\ gwLast' = [n |-> n, req |-> req, forwards |-> <<forward>>]
                    /\ UNCHANGED gwResp
           ELSE IF path = <<>> /\ RootHandles(method)
           THEN respond("root", 200, IF method = "HEAD" THEN "" ELSE LivenessBody)
           ELSE respond("finalhandler", 404, "Cannot <method> <path>")
        /\ UNCHANGED <<nonGatewayVars, now, gwHpm, gwRoutes>>

\* The downstream service answers and the proxy pipes its status and body to
\* the caller.
GatewayProxyRes(s, answer) ==
    LET h == gwSlots[s]
    IN  /\ h.pc = "proxied"
        /\ gwResp' = GatewayResponse(h.n, h.req, "proxy", answer.status, answer.body, answer)
        /\ gwSlots' = [gwSlots EXCEPT ![s] = Idle]
        /\ UNCHANGED <<nonGatewayVars, now, gwHpm, gwRoutes, gwReqs, gwLast>>

\* An error handler that answers every proxy error with the default status.
GetStatusCodeDefaultOnly(code) == 500

\* The status the proxy's default error handler answers for the error code of
\* the failed downstream request (no error handler is configured): 502 for a
\* malformed downstream response, 504 for the four codes of its table, 500
\* for every other code.
GetStatusCode(code) ==
    IF code = "HPE_INVALID_HEADER_TOKEN" THEN 502
    ELSE IF code \in {"ECONNRESET", "ENOTFOUND", "ECONNREFUSED", "ETIMEDOUT"} THEN 504
    ELSE 500

\* The request to the downstream service fails with an error code (the
\* service is down, its host cannot be reached, the connect times out): the
\* proxy's error handler answers; nothing is sent again.
GatewayProxyError(s, code) ==
    LET h == gwSlots[s]
    IN  /\ h.pc = "proxied"
        /\ gwResp' = [GatewayResponse(h.n, h.req, "proxyerror", GetStatusCode(code),
                                      "Error occurred while trying to proxy", NoDownstream)
                       EXCEPT !.downstream = [status |-> 0, body |-> code]]
        /\ gwSlots' = [gwSlots EXCEPT ![s] = Idle]
        /\ UNCHANGED <<nonGatewayVars, now, gwHpm, gwRoutes, gwReqs, gwLast>>

\* ---- the inputs of the model
Methods == {"GET", "HEAD", "POST", "OPTIONS"}
Paths ==
    {<<>>, <<"health">>, <<"productsx">>, <<"auth", "login">>, <<"orders">>,
     <<"products", "42">>, <<"Products", "42">>, <<"products", "products", "1">>}
DownstreamAnswers ==
    {[status |-> 200, body |-> "downstream body"],
     [status |-> 404, body |-> "downstream not found"]}
\* Connection refused, connect timed out, no route to the host.
ErrorCodes == {"ECONNREFUSED", "ETIMEDOUT", "EHOSTUNREACH"}

InitGateway ==
    /\ gwHpm = 0
    /\ gwRoutes = <<>>
    /\ gwSlots = [s \in GatewaySlots |-> Idle]
    /\ gwReqs = 0
    /\ gwLast = [n |-> 0]
    /\ gwResp = [n |-> 0]

NextGateway ==
    \/ GatewayLoad
    \/ \E s \in GatewaySlots, method \in Methods, path \in Paths :
            GatewayHandle(s, method, path)
    \/ \E s \in GatewaySlots, answer \in DownstreamAnswers : GatewayProxyRes(s, answer)
    \/ \E s \in GatewaySlots, code \in ErrorCodes : GatewayProxyError(s, code)

(***************************************************************************)
(* The two backends side by side: every request is given to a process on   *)
(* the in-memory arrays and to a process on the database, at the same      *)
(* clock value.  A request names an entity by the id each process knows it *)
(* under.                                                                  *)
(***************************************************************************)
\* The product handlers as a whole, on the in-memory branch.
ProductOnMemory(req, st, at) ==
    IF req.op = "create" /\ CreateRejected(req.body)
    THEN [status |-> 400, body |-> [message |-> "Name and price are required"],
          products |-> st.products, nextId |-> st.nextId]
    ELSE MemProducts(req, st.products, st.nextId, at)

\* The product handlers as a whole, on the database branch.
ProductOnDb(req, st, at) ==
    IF req.op = "create" /\ CreateRejected(req.body)
    THEN [status |-> 400, body |-> [message |-> "Name and price are required"],
          coll |-> st.products, nextOid |-> st.nextOid]
    ELSE DbProducts(req, st.products, st.nextOid, at)

\* The order handlers as a whole, on the in-memory branch.
OrderOnMemory(req, orders, at) ==
    IF OrderValidation(req) # Undefined
    THEN [status |-> 400, body |-> OrderValidation(req), orders |-> orders]
    ELSE MemOrders(req, orders, at)

\* The order handlers as a whole, on the database branch.
OrderOnDb(req, coll, at) ==
    IF OrderValidation(req) # Undefined
    THEN [status |-> 400, body |-> OrderValidation(req), coll |-> coll]
    ELSE IF OrderIdRejected(req)
    THEN [status |-> 400, body |-> InvalidOrderId, coll |-> coll]
    ELSE DbOrders(req, coll,
                  IF req.op = "create" THEN ReduceTotal(req.body.items.a) ELSE Undefined, at)

\* One product request handled by both processes.
TwinProduct(op, id, body) ==
    LET m == ProductOnMemory(ProdRequest(op, id.mem, body), twinMem, now)
        d == ProductOnDb(ProdRequest(op, id.db, body), twinDb, now)
    IN  /\ twinReqs < MaxTwinReqs
        /\ twinReqs' = twinReqs + 1
        /\ twinMem' = [twinMem EXCEPT !.products = m.products, !.nextId = m.nextId]
        /\ twinDb' = [twinDb EXCEPT !.products = d.coll, !.nextOid = d.nextOid]
        /\ twinResp' = [n |-> twinReqs + 1, id |-> id, body |-> body, op |-> op,
                        db |-> [status |-> d.status, body |-> d.body],
                        service |-> "product",
                        mem |-> [status |-> m.status, body |-> m.body]]
        /\ UNCHANGED <<nonTwinVars, now>>

\* One order request handled by both processes.
TwinOrder(op, id, body) ==
    LET m == OrderOnMemory(OrderRequest(op, id.mem, body), twinMem.orders, now)
        d == OrderOnDb(OrderRequest(op, id.db, body), twinDb.orders, now)
    IN  /\ twinReqs < MaxTwinReqs
        /\ twinReqs' = twinReqs + 1
        /\ twinMem' = [twinMem EXCEPT !.orders = m.orders]
        /\ twinDb' = [twinDb EXCEPT !.orders = d.coll]
        /\ twinResp' = [n |-> twinReqs + 1, id |-> id, body |-> body, op |-> op,
                        db |-> [status |-> d.status, body |-> d.body],
                        service |-> "order",
                        mem |-> [status |-> m.status, body |-> m.body]]
        /\ UNCHANGED <<nonTwinVars, now>>

\* ---- the inputs of the model
NoId == [db |-> "", mem |-> ""]

\* The seeded product "1" and the first created product "4" with the ids the
\* database gives them, an absent well-formed ObjectId, and an id that is
\* neither.
TwinProductIds ==
    {[db |-> ObjectIdOf(1), mem |-> "1"], [db |-> ObjectIdOf(4), mem |-> "4"],
     [db |-> "o9", mem |-> "o9"], [db |-> "abc", mem |-> "abc"]}

\* The first created order under its two ids, an absent well-formed ObjectId,
\* and an id that is neither.
TwinOrderIds ==
    {[db |-> twinDb.orders[1]._id, mem |-> twinMem.orders[1]._id] :
        i \in {j \in {1} : Len(twinMem.orders) >= 1 /\ Len(twinDb.orders) >= 1}}
    \cup {[db |-> "o9", mem |-> "o9"], [db |-> "abc", mem |-> "abc"]}

InitTwin ==
    /\ twinMem = [products |-> InitialInMemoryProducts, nextId |-> 4, orders |-> <<>>]
    /\ twinDb = [products |-> [i \in 1..3 |-> ProductDoc(ObjectIdOf(i), SeedFields[i], Date(1))],
                 nextOid |-> 3, orders |-> <<>>]
    /\ twinReqs = 0
    /\ twinResp = [n |-> 0]

Tick ==
    /\ now < MaxClock
    /\ now' = now + 1
    /\ UNCHANGED <<prodVars, authVars, orderVars, gwVars, twinVars>>

NoResponse == [n |-> 0]

\* The product service is started with no MONGODB_URI in its environment (with
\* one, it behaves the same towards the database the setting names).
\* mongoose.connect is called with the uri: connecting, unless there is none.
InitProduct ==
    /\ prodReadyState = IF Falsy(ProductMongoUri(Undefined)) THEN 0 ELSE 2
    /\ prodIsMongoConnected = FALSE
    /\ seedPc = [k \in Instances |-> "idle"]
    /\ inMemoryProducts = InitialInMemoryProducts
    /\ nextProductId = 4
    /\ dbProducts = <<>>
    /\ dbNextOid = 0
    /\ prodSlots = [s \in ProductSlots |-> Idle]
    /\ prodReqs = 0
    /\ prodResp = NoResponse

NextOrder ==
    \/ Tick
    \/ OrderLoad
    \/ OrderConnected
    \/ OrderConnectFailed
    \/ \E s \in OrderSlots : OrderGetAll(s)
    \/ \E s \in OrderSlots, segment \in OrderPathInputs : OrderGetPath(s, segment)
    \/ \E s \in OrderSlots, body \in OrderBodies : OrderPost(s, body)
    \/ \E s \in OrderSlots, p \in StatusPatches : OrderPatchStatus(s, p.id, p.body)
    \/ \E s \in OrderSlots : OrderDbReturn(s)

Init ==
    /\ now = 1
    /\ InitProduct
    /\ InitAuth
    /\ InitOrder
    /\ InitGateway
    /\ InitTwin

NextProduct ==
    \/ ProdConnected
    \/ ProdConnectFailed
    \/ ProdConnectionLost
    \/ ProdReconnected
    \/ SeedCount(1)
    \/ SeedInsert(1)
    \/ \E s \in ProductSlots : ProdGetAll(s)
    \/ \E s \in ProductSlots, id \in ProductIdInputs : ProdGetById(s, id)
    \/ \E s \in ProductSlots, body \in CreateBodies : ProdPost(s, body)
    \/ \E s \in ProductSlots, id \in ProductIdInputs, body \in UpdateBodies : ProdPut(s, id, body)
    \/ \E s \in ProductSlots, id \in ProductIdInputs : ProdDelete(s, id)
    \/ \E s \in ProductSlots : ProdDbReturn(s)

NextTwin ==
    \/ Tick
    \/ TwinProduct("list", NoId, NoBody)
    \/ \E id \in TwinProductIds : TwinProduct("get", id, NoBody)
    \/ \E body \in CreateBodies : TwinProduct("create", NoId, body)
    \/ \E id \in TwinProductIds, body \in UpdateBodies : TwinProduct("update", id, body)
    \/ \E id \in TwinProductIds : TwinProduct("delete", id, NoBody)
    \/ TwinOrder("list", NoId, NoOrderBody)
    \/ \E id \in TwinOrderIds : TwinOrder("get", id, NoOrderBody)
    \/ \E body \in OrderBodies : TwinOrder("create", NoId, body)
    \/ \E id \in TwinOrderIds, p \in StatusPatches : TwinOrder("patch", id, p.body)

\* One specification per service, the services being separate processes that
\* share no state.  The auth service takes no step in the specification of
\* another service, where its variant is therefore fixed.
InitOther == Init /\ authVariant = "fallback"

SpecProduct == InitOther /\ [][NextProduct]_vars

SpecAuth == Init /\ [][NextAuth]_vars

SpecOrder == InitOther /\ [][NextOrder]_vars

SpecGateway == InitOther /\ [][NextGateway]_vars

SpecTwin == InitOther /\ [][NextTwin]_vars

\* The product service with other instances of it started against its database.
NextSeed ==
    \/ NextProduct
    \/ \E k \in Instances : InstanceConnected(k)
    \/ \E k \in Instances \ {1} : SeedCount(k)
    \/ \E k \in Instances \ {1} : SeedInsert(k)

SpecSeed == InitOther /\ [][NextSeed]_vars

\* The three services with storage calls that may fail.  The services share no
\* state, so a behaviour of the three projects onto a behaviour of each: the
\* steps of one service are taken with the other two in their initial state
\* (and the clock, which only the order service's steps advance, at its own).
\* The product service with fewer request bodies and ids than NextProduct, and
\* with database calls that may reject.
NextProductFault ==
    \/ ProdConnected
    \/ ProdConnectFailed
    \/ ProdConnectionLost
    \/ ProdReconnected
    \/ SeedCount(1)
    \/ SeedInsert(1)
    \/ \E s \in ProductSlots : ProdGetAll(s)
    \/ \E s \in ProductSlots, id \in {"1", "o4"} : ProdGetById(s, id)
    \/ \E s \in ProductSlots : ProdPost(s, Body(Str("Mouse"), Undefined, Num(150), Whole(2)))
    \/ \E s \in ProductSlots : ProdPost(s, Body(Str("Mouse"), Undefined, Str("abc"), Undefined))
    \/ \E s \in ProductSlots, id \in {"1", "o4"} :
            ProdPut(s, id, Body(Str("Kb"), Undefined, Num(999), Whole(3)))
    \/ \E s \in ProductSlots, id \in {"1", "o4"} : ProdDelete(s, id)
    \/ \E s \in ProductSlots : ProdDbReturn(s)
    \/ \E s \in ProductSlots : ProdDbThrow(s)

NextFault ==
    \/ /\ InitAuth /\ InitOrder /\ now = 1
       /\ authVariant = "fallback"
       /\ NextProductFault
    \/ /\ InitProduct /\ InitOrder /\ now = 1
       /\ NextAuth \/ \E s \in AuthSlots : AuthThrow(s)
    \/ /\ InitProduct /\ InitAuth
       /\ authVariant = "fallback"
       /\ NextOrder \/ \E s \in OrderSlots : OrderDbThrow(s)

SpecFault == Init /\ [][NextFault]_vars

\* Every call a handler awaits eventually resolves or rejects, and the event
\* loop then resumes the handler.
AwaitsSettle ==
    /\ \A s \in ProductSlots :
          WF_(prodSlots[s].pc)(ProdDbReturn(s) \/ ProdDbThrow(s))
    /\ \A s \in AuthSlots :
          WF_(authSlots[s].pc)(AuthRegisterPush(s) \/ AuthRegisterFindOne(s)
                                 \/ AuthRegisterSave(s) \/ AuthLoginFindOne(s)
                                 \/ AuthThrow(s))
    /\ \A s \in OrderSlots :
          WF_(orderSlots[s].pc)(OrderDbReturn(s) \/ OrderDbThrow(s))

\* The three services (fallback variants) under that condition.
SpecLive == InitOther /\ [][NextFault]_vars /\ AwaitsSettle

(***************************************************************************)
(* Properties of the product service                                       *)
(***************************************************************************)
\* The store a response was served from.
ProductsOf(backend) == IF backend = "db" THEN dbProducts ELSE inMemoryProducts

\* A payload with name and price set: the name a string, the price a number
\* >= 0, the stock absent or a whole number >= 0.
WellFormedPayload(body) ==
    /\ body.name.t = "string"
    /\ body.price.t = "number" /\ body.price.v >= 0
    /\ \/ body.stock = Undefined
       \/ body.stock.t = "number" /\ body.stock.v >= 0 /\ Trunc(body.stock.v) = body.stock.v

\* A read-by-id answers 200 with the stored product of that id.
ReadReturnsStored ==
    (prodResp.n > 0 /\ prodResp.req.op = "get" /\ prodResp.status = 200)
        => LET idx == FindIndexById(ProductsOf(prodResp.backend), prodResp.req.id)
           IN  idx > 0 /\ prodResp.body = ProductsOf(prodResp.backend)[idx]

\* C1: every create whose body has name and price set (the name any string, the
\* price any number >= 0) is answered 201 with a productId, and the product a
\* read-by-id of that productId then returns has the name, price and stock
\* submitted (stock 0 when none was submitted).
C1_CreateThenRead ==
    /\ ReadReturnsStored
    /\ (prodResp.n > 0 /\ prodResp.req.op = "create" /\ WellFormedPayload(prodResp.req.body))
        => /\ prodResp.status = 201
           /\ LET store == ProductsOf(prodResp.backend)
                  idx == FindIndexById(store, prodResp.body.productId)
              IN  /\ idx > 0
                  /\ store[idx].name = prodResp.req.body.name
                  /\ store[idx].price = prodResp.req.body.price
                  /\ store[idx].stock = JsOr(prodResp.req.body.stock, Whole(0))

\* C2: a create that is missing name or missing price is answered 400, and the
\* step that answers it changes neither collection nor either identifier counter.
C2_MissingFieldRejected ==
    [][(/\ prodResp' # prodResp
        /\ prodResp'.req.op = "create"
        /\ (prodResp'.req.body.name = Undefined \/ prodResp'.req.body.price = Undefined))
       => /\ prodResp'.status = 400
          /\ UNCHANGED <<inMemoryProducts, nextProductId, dbProducts, dbNextOid>>]_vars

\* A create without a price was answered 400 while the database was connected.
C2_Witness ==
    /\ prodResp.n > 0
    /\ prodResp.req.op = "create"
    /\ prodResp.req.body.name = Str("Mouse")
    /\ prodResp.req.body.price = Undefined
    /\ prodResp.status = 400
    /\ prodReadyState = 1

NoDuplicateEmails(users) ==
    \A i, j \in 1..Len(users) : users[i].email = users[j].email => i = j

\* C4: no two stored users have the same email, and every register for an email
\* that is already stored when the handler finishes is answered 400.
C4_UniqueEmails ==
    /\ NoDuplicateEmails(inMemoryUsers)
    /\ NoDuplicateEmails(dbUsers)
    /\ (authResp.n > 0 /\ authResp.req.op = "register" /\ authResp.stored)
            => authResp.status = 400

OrdersOf(backend) == IF backend = "db" THEN dbOrders ELSE inMemoryOrders

\* The sum of price x quantity over the items; an item without a quantity
\* field counts once.
RECURSIVE SumOfLines(_)
SumOfLines(items) ==
    IF items = <<>> THEN Whole(0)
    ELSE LET item == items[Len(items)]
             quantity == IF item.quantity = Undefined THEN Whole(1) ELSE item.quantity
         IN  Plus(SumOfLines(SubSeq(items, 1, Len(items) - 1)),
                  Times(item.price, quantity))

\* C6: when a create request has been answered 201, the total in the response
\* and the total of the order just stored both equal the sum over the items of
\* price x quantity, a quantity of 0 contributing 0.
C6_TotalIsSum ==
    (orderResp.n > 0 /\ orderResp.req.op = "create" /\ orderResp.status = 201) =>
        LET orders == OrdersOf(orderResp.backend)
            stored == orders[Len(orders)]
        IN  /\ orderResp.body.total = SumOfLines(orderResp.req.body.items.a)
            /\ stored.total = SumOfLines(stored.items.a)

\* Every order of old is still in new at its place with every field but
\* status and updatedAt as it was.
OrdersKept(old, new) ==
    /\ Len(new) >= Len(old)
    /\ \A i \in 1..Len(old) :
          \A k \in DOMAIN old[i] \ {"status", "updatedAt"} : new[i][k] = old[i][k]

\* C7: no step of the order service changes the total, items or userEmail (or
\* any field other than status and updatedAt) of an order that exists, in the
\* in-memory array or in the collection.
C7_OrderFrame ==
    [][OrdersKept(inMemoryOrders, inMemoryOrders') /\ OrdersKept(dbOrders, dbOrders')]_vars

\* A status update has been answered 200 and the updated order is in the store
\* with its new status, next to a create that computed a total.
C7_Witness ==
    /\ orderResp.n > 0
    /\ orderResp.req.op = "patch"
    /\ orderResp.status = 200
    /\ \E i \in 1..Len(OrdersOf(orderResp.backend)) :
          LET order == OrdersOf(orderResp.backend)[i]
          IN  /\ order._id = orderResp.req.id
              /\ order.status = orderResp.req.body.status
              /\ order.updatedAt # Undefined
              /\ order.total = ReduceTotal(order.items.a)

(***************************************************************************)
(* api-gateway: properties                                                 *)
(***************************************************************************)
Prefixes == {"auth", "products", "orders"}

\* The service that owns a prefix.
OwnerOf(prefix) ==
    CASE prefix = "auth" -> "AUTH_SERVICE_URL"
      [] prefix = "products" -> "PRODUCT_SERVICE_URL"
      [] prefix = "orders" -> "ORDER_SERVICE_URL"

\* C8: a request other than a CORS preflight whose path is /<prefix>/<rest>,
\* the prefix being auth, products or orders, is forwarded to the owner of the
\* prefix with path /<rest>, and a response relayed from downstream carries the
\* status and the body the downstream service answered.
C8_ForwardStripsPrefix ==
    /\ (/\ gwLast.n > 0
        /\ gwLast.req.method # "OPTIONS"
        /\ gwLast.req.path # <<>>
        /\ gwLast.req.path[1] \in Prefixes)
       => /\ Len(gwLast.forwards) = 1
          /\ gwLast.forwards[1].target = OwnerOf(gwLast.req.path[1])
          /\ gwLast.forwards[1].path = Tail(gwLast.req.path)
    /\ (gwResp.n > 0 /\ gwResp.via = "proxy")
       => /\ gwResp.status = gwResp.downstream.status
          /\ gwResp.body = gwResp.downstream.body

\* C9 as stated: every request whose path is under /auth, /products or /orders
\* is forwarded to exactly one service, the owner of the prefix, and every
\* other request is forwarded to none.
C9_EveryRequestUnderPrefixForwarded ==
    gwLast.n > 0 =>
        IF gwLast.req.path # <<>> /\ gwLast.req.path[1] \in Prefixes
        THEN /\ Len(gwLast.forwards) = 1
             /\ gwLast.forwards[1].target = OwnerOf(gwLast.req.path[1])
        ELSE gwLast.forwards = <<>>

\* The request is under a prefix when its leading segment is the prefix in any
\* letter case.
UnderPrefix(path) == path # <<>> /\ ToLowerCase(path[1]) \in Prefixes

\* C9: every request other than an OPTIONS request whose leading segment is
\* auth, products or orders in any letter case is forwarded to exactly one
\* service, the owner of that prefix; an OPTIONS request and a request under
\* none of the prefixes is forwarded to no service; once loaded, the routing
\* table never changes.
C9_RoutedToOwner ==
    [][/\ gwHpm # 0 => gwRoutes' = gwRoutes
       /\ gwLast' # gwLast =>
            IF gwLast'.req.method # "OPTIONS" /\ UnderPrefix(gwLast'.req.path)
            THEN /\ Len(gwLast'.forwards) = 1
                 /\ gwLast'.forwards[1].target = OwnerOf(ToLowerCase(gwLast'.req.path[1]))
            ELSE gwLast'.forwards = <<>>]_vars

\* A request under /products in another letter case has been forwarded to the
\* product service, with the routing table loaded.
C9_Witness ==
    /\ gwRoutes = ProxyRoutes
    /\ gwLast.n > 0
    /\ gwLast.req.path # <<>>
    /\ gwLast.req.path[1] = "Products"
    /\ Len(gwLast.forwards) = 1
    /\ gwLast.forwards[1].target = "PRODUCT_SERVICE_URL"

\* C10 as stated: a request that matches no proxied prefix is answered 200
\* with the liveness body on the root path and 404 on every other path,
\* whatever its method.
C10_UnmatchedAnyMethod ==
    (gwResp.n > 0 /\ ~UnderPrefix(gwResp.req.path)) =>
        IF gwResp.req.path = <<>>
        THEN gwResp.status = 200 /\ gwResp.body = LivenessBody
        ELSE gwResp.status = 404

\* C10: a request that matches no proxied prefix is answered 204 when its
\* method is OPTIONS; otherwise 200 with the liveness body for GET on the root
\* path, 200 with an empty body for HEAD on the root path, and 404 for every
\* other method on the root path and for every other path.
C10_UnmatchedByMethod ==
    (gwResp.n > 0 /\ ~UnderPrefix(gwResp.req.path)) =>
        CASE gwResp.req.method = "OPTIONS" -> gwResp.status = 204
          [] gwResp.req.method = "GET" /\ gwResp.req.path = <<>> ->
                gwResp.status = 200 /\ gwResp.body = LivenessBody
          [] gwResp.req.method = "HEAD" /\ gwResp.req.path = <<>> ->
                gwResp.status = 200 /\ gwResp.body = ""
          [] OTHER -> gwResp.status = 404

\* POST on the root path has been answered 404.
C10_Witness ==
    /\ gwResp.n > 0
    /\ gwResp.req.path = <<>>
    /\ gwResp.req.method = "POST"
    /\ gwResp.status = 404

WithoutId(store, id) ==
    LET kept == {i \in 1..Len(store) : store[i]._id # id}
        nth(k) == CHOOSE i \in kept : Cardinality({j \in kept : j < i}) = k - 1
    IN  [k \in 1..Cardinality(kept) |-> store[nth(k)]]

\* C12: a delete is answered 404 and changes nothing when no product of the
\* store has the id (on every attempt, so also after a delete that removed
\* it), and is answered 200 and removes exactly the product of that id when
\* there is one.
C12_DeleteOnceThenNotFound ==
    [][(prodResp' # prodResp /\ prodResp'.req.op = "delete") =>
          LET id == prodResp'.req.id
              db == prodResp'.backend = "db"
              store == IF db THEN dbProducts ELSE inMemoryProducts
              after == IF db THEN dbProducts' ELSE inMemoryProducts'
          IN  /\ IF db THEN inMemoryProducts' = inMemoryProducts
                       ELSE dbProducts' = dbProducts
              /\ IF \E i \in 1..Len(store) : store[i]._id = id
                 THEN /\ prodResp'.status = 200
                      /\ after = WithoutId(store, id)
                      /\ Len(after) = Len(store) - 1
                 ELSE /\ prodResp'.status = 404
                      /\ after = store]_vars

\* A payload of an update whose supplied fields are a string name, a string
\* description, a price that is a number >= 0 and a stock that is a whole
\* number >= 0.
WellFormedUpdate(body) ==
    /\ body.name = Undefined \/ body.name.t = "string"
    /\ body.description = Undefined \/ body.description.t = "string"
    /\ body.price = Undefined \/ (body.price.t = "number" /\ body.price.v >= 0)
    /\ body.stock = Undefined
       \/ (body.stock.t = "number" /\ body.stock.v >= 0 /\ Trunc(body.stock.v) = body.stock.v)

\* C13: an update with a well-formed payload of a product that is in the
\* store is answered 200, gives each supplied field its supplied value,
\* leaves every field not supplied, _id and createdAt as they were, sets
\* updatedAt, and leaves every other product alone; an update of an id that is
\* not in the store is answered 404 and changes nothing.
C13_UpdateMergesSupplied ==
    [][(/\ prodResp' # prodResp
        /\ prodResp'.req.op = "update"
        /\ WellFormedUpdate(prodResp'.req.body)) =>
          LET id == prodResp'.req.id
              body == prodResp'.req.body
              db == prodResp'.backend = "db"
              store == IF db THEN dbProducts ELSE inMemoryProducts
              after == IF db THEN dbProducts' ELSE inMemoryProducts'
              present == {i \in 1..Len(store) : store[i]._id = id}
          IN  IF present = {}
              THEN prodResp'.status = 404 /\ after = store
              ELSE /\ prodResp'.status = 200
                   /\ Len(after) = Len(store)
                   /\ \A i \in 1..Len(store) :
                        IF i \in present
                        THEN /\ \A k \in {"name", "description", "price", "stock"} :
                                  after[i][k] = IF body[k] # Undefined THEN body[k]
                                                ELSE store[i][k]
                             /\ after[i]._id = store[i]._id
                             /\ after[i].createdAt = store[i].createdAt
                             /\ after[i].updatedAt.t = "date"
                        ELSE after[i] = store[i]]_vars

(***************************************************************************)
(* read after write, backends                                              *)
(***************************************************************************)
\* The orders either store of the process holds under an id.  Every stored
\* order was created by a request answered 201, and no request removes one.
CreatedOrders(id) ==
    {inMemoryOrders[i] : i \in {j \in 1..Len(inMemoryOrders) : inMemoryOrders[j]._id = id}}
    \cup {dbOrders[i] : i \in {j \in 1..Len(dbOrders) : dbOrders[j]._id = id}}

\* C14: a read by id of an order the process has created is answered 200 with
\* that order, and a list contains every order the process has created,
\* whatever the database connection did between the create and the read.
C14_ReadAfterWrite ==
    /\ (orderResp.n > 0 /\ orderResp.req.op = "get"
            /\ CreatedOrders(orderResp.req.id) # {})
       => (orderResp.status = 200 /\ orderResp.body \in CreatedOrders(orderResp.req.id))
    /\ (orderResp.n > 0 /\ orderResp.req.op = "list")
       => /\ orderResp.status = 200
          /\ \A id \in OrderIdInputs : \A order \in CreatedOrders(id) :
                \E i \in 1..Len(orderResp.body.a) : orderResp.body.a[i] = order

\* A document without its identifier.
WithoutIdField(doc) == [k \in DOMAIN doc \ {"_id"} |-> doc[k]]

\* What a response says about the entities, generated identifiers left out.
Contents(op, r) ==
    CASE op = "list" /\ r.status = 200 ->
            [status |-> r.status,
             body |-> Array([i \in 1..Len(r.body.a) |-> WithoutIdField(r.body.a[i])])]
      [] op = "get" /\ r.status = 200 ->
            [status |-> r.status, body |-> WithoutIdField(r.body)]
      [] op = "create" /\ r.status = 201 ->
            [status |-> r.status,
             body |-> [k \in DOMAIN r.body \ {"productId", "orderId"} |-> r.body[k]]]
      [] op = "update" /\ r.status = 200 ->
            [status |-> r.status, body |-> WithoutIdField(r.body.product)]
      [] OTHER -> [status |-> r.status, body |-> <<>>]

\* C15: given the same requests, the process on the in-memory arrays and the
\* process on the database answer each request with the same status and the
\* same entity contents, generated identifiers apart.
C15_BackendsAgree ==
    twinResp.n > 0 => Contents(twinResp.op, twinResp.mem) = Contents(twinResp.op, twinResp.db)

(***************************************************************************)
(* identifiers                                                             *)
(***************************************************************************)
\* The number a decimal identifier stands for.
IdNumber(id) == CHOOSE n \in 1..Len(DecimalStrings) : DecimalStrings[n] = id

\* No two elements of the array have the same _id.
UniqueIds(arr) == \A i, j \in 1..Len(arr) : arr[i]._id = arr[j]._id => i = j

\* Every identifier in the array is below the counter.
IdsBelow(arr, counter) == \A i \in 1..Len(arr) : IdNumber(arr[i]._id) < counter

\* C16: in the in-memory array no two products share an _id and every
\* identifier in use or issued earlier is below nextProductId, which never
\* decreases; a product added to the array gets an identifier that is at
\* least the counter, so greater than every identifier issued before it
\* (deleted ones included) and than the seeded '1', '2', '3'.
C16_IdsIncrease ==
    [][/\ UniqueIds(inMemoryProducts) /\ UniqueIds(inMemoryProducts')
       /\ IdsBelow(inMemoryProducts, nextProductId)
       /\ IdsBelow(inMemoryProducts', nextProductId')
       /\ nextProductId' >= nextProductId
       /\ Len(inMemoryProducts') > Len(inMemoryProducts) =>
            LET new == inMemoryProducts'[Len(inMemoryProducts')]
            IN  /\ inMemoryProducts' = Append(inMemoryProducts, new)
                /\ IdNumber(new._id) >= nextProductId
                /\ IdNumber(new._id) > 3
                /\ prodResp'.body.productId = new._id]_vars

\* A product has been created in the in-memory array after a seeded product
\* was deleted from it.
C16_Witness ==
    /\ prodResp.n > 0
    /\ prodResp.req.op = "create"
    /\ prodResp.status = 201
    /\ prodResp.backend = "memory"
    /\ Len(inMemoryProducts) = 3
    /\ inMemoryProducts[3]._id = "4"

\* C17: in the in-memory array of the order service every order has an
\* identifier strictly greater than that of every order created before it, so
\* no two orders share an _id.
C17_OrderIdsIncrease ==
    \A i, j \in 1..Len(inMemoryOrders) :
        i < j => IdNumber(inMemoryOrders[i]._id) < IdNumber(inMemoryOrders[j]._id)

\* C18: GET /health is answered by the health handler, with 200 and status
\* 'ok', whatever the state of the connection.
C18_HealthAnswered ==
    (orderResp.n > 0 /\ orderResp.req.op \in {"get", "health"}
        /\ orderResp.req.id = "health")
    => /\ orderResp.req.op = "health"
       /\ orderResp.status = 200
       /\ orderResp.body = [status |-> "ok", service |-> "order-service"]

\* The statuses the handlers answer with.
HandlerStatuses == {200, 201, 400, 401, 404, 500}

\* The step answers request number n of a service with 500.
Answers500(old, new) == new # old /\ new.n > 0 /\ new.status = 500

\* Of the suspended handlers, at most the one that was answered has moved.
OthersSuspended(old, new, resp) ==
    \A t \in DOMAIN old : new[t] # old[t] => (old[t] # Idle /\ old[t].n = resp.n)

\* C19: every response of a handler of the product, auth and order services
\* has a status among 200, 201, 400, 401, 404 and 500; a request that fails
\* (a storage call, the hashing) is answered 500 with the generic message, and
\* the step that answers it changes no store, no connection state, no other
\* suspended request, and leaves the process running.
C19_FailureAnswered500 ==
    [][/\ prodResp'.n > 0 => prodResp'.status \in HandlerStatuses
       /\ authResp'.n > 0 => authResp'.status \in HandlerStatuses
       /\ orderResp'.n > 0 => orderResp'.status \in HandlerStatuses
       /\ Answers500(prodResp, prodResp') =>
            /\ prodResp'.body = [message |-> "Internal server error"]
            /\ UNCHANGED <<prodReadyState, prodIsMongoConnected, seedPc, inMemoryProducts,
                           nextProductId, dbProducts, dbNextOid>>
            /\ OthersSuspended(prodSlots, prodSlots', prodResp')
       /\ Answers500(authResp, authResp') =>
            /\ authResp'.body = [message |-> "Internal server error"]
            /\ authAlive'
            /\ UNCHANGED <<authReadyState, authIsMongoConnected, inMemoryUsers, dbUsers,
                           authRegistered>>
            /\ OthersSuspended(authSlots, authSlots', authResp')
       /\ Answers500(orderResp, orderResp') =>
            /\ orderResp'.body = [message |-> "Internal server error"]
            /\ UNCHANGED <<orderConn, inMemoryOrders, dbOrders>>
            /\ OthersSuspended(orderSlots, orderSlots', orderResp')
      ]_vars

\* A registration was answered 500 while another request was suspended.
C19_Witness ==
    /\ authResp.n > 0 /\ authResp.status = 500
    /\ \E s \in AuthSlots : authSlots[s] # Idle

\* The order a create has just appended to a store is pending.
CreatedPending(old, new) ==
    Len(new) > Len(old) => new[Len(new)].status = Str("pending")

\* The status of an order of the store differs after the step.
StatusChanged(old, new) ==
    \E i \in 1..Len(old) : new[i].status # old[i].status

\* The orders the two stores hold under an id.
StoredUnder(mem, db, id) ==
    {mem[i] : i \in {j \in 1..Len(mem) : mem[j]._id = id}}
    \cup {db[i] : i \in {j \in 1..Len(db) : db[j]._id = id}}

\* C20: an order is created with status 'pending'; a PATCH /:id/status that
\* carries a status string for an order the process holds is answered 200 and
\* leaves the order with exactly that status, whatever its status was; and a
\* status changes only in the step that answers such a PATCH.
C20_StatusSetByPatch ==
    [][/\ CreatedPending(inMemoryOrders, inMemoryOrders')
       /\ CreatedPending(dbOrders, dbOrders')
       /\ (/\ orderResp' # orderResp
           /\ orderResp'.req.op = "patch"
           /\ orderResp'.req.body.status.t = "string"
           /\ CreatedOrders(orderResp'.req.id) # {})
          => /\ orderResp'.status = 200
             /\ \A order \in StoredUnder(inMemoryOrders', dbOrders', orderResp'.req.id) :
                    order.status = orderResp'.req.body.status
       /\ (StatusChanged(inMemoryOrders, inMemoryOrders') \/ StatusChanged(dbOrders, dbOrders'))
          => /\ orderResp' # orderResp
             /\ orderResp'.req.op = "patch"
             /\ orderResp'.status = 200
      ]_vars

(***************************************************************************)
(* order-service: create                                                   *)
(***************************************************************************)
\* The store gained exactly one order, the last, with the given id; the
\* orders it had are where they were.
OneAdded(old, new, id) ==
    /\ Len(new) = Len(old) + 1
    /\ \A i \in 1..Len(old) : new[i]._id = old[i]._id
    /\ new[Len(new)]._id = id

\* C21: a create whose items are missing, not an array or an empty array is
\* answered 400 and adds no order to either store; a create answered 201
\* carries an orderId and adds exactly one order, the one with that id, to
\* exactly one store; and no other step adds an order.
C21_CreateValidated ==
    [][LET answered == orderResp' # orderResp /\ orderResp'.req.op = "create"
           items == orderResp'.req.body.items
           none == /\ Len(inMemoryOrders') = Len(inMemoryOrders)
                   /\ Len(dbOrders') = Len(dbOrders)
       IN  /\ (answered /\ (items.t # "array" \/ items.a = <<>>))
              => (orderResp'.status = 400 /\ none)
           /\ (answered /\ orderResp'.status = 201)
              => \/ /\ OneAdded(inMemoryOrders, inMemoryOrders', orderResp'.body.orderId)
                    /\ dbOrders' = dbOrders
                 \/ /\ OneAdded(dbOrders, dbOrders', orderResp'.body.orderId)
                    /\ inMemoryOrders' = inMemoryOrders
           /\ ~(answered /\ orderResp'.status = 201) => none
      ]_vars

\* A create with an empty array has been answered 400 after a create was
\* answered 201 and stored.
C21_Witness ==
    /\ orderResp.n > 1
    /\ orderResp.req.op = "create"
    /\ orderResp.req.body.items = Array(<<>>)
    /\ orderResp.status = 400
    /\ Len(inMemoryOrders) + Len(dbOrders) = 1

C23_NoUriNeverDatabase ==
    /\ prodResp.n > 0 => prodResp.backend # "db"
    /\ (orderConn = "nouri" /\ orderResp.n > 0) => orderResp.backend # "db"

\* Two responses that were served from a store were served from the same one.
SameBackend(old, new) ==
    (/\ old.n > 0 /\ old.backend \in {"memory", "db"}
     /\ new.n > 0 /\ new.backend \in {"memory", "db"})
    => new.backend = old.backend

\* C24: a service that has served a request from the in-memory fallback
\* serves the next one from it as well, and one that has served a request
\* from the database serves the next one from the database.
C24_OneBackend ==
    [][SameBackend(prodResp, prodResp') /\ SameBackend(orderResp, orderResp')]_vars

(***************************************************************************)
(* product-service: the stored data                                        *)
(***************************************************************************)
\* A product with a name, a price >= 0 and a stock that is an integer >= 0
\* (numbers are held in hundredths).
ValidProduct(p) ==
    /\ p.name.t = "string" /\ p.name.s # ""
    /\ p.price.t = "number" /\ p.price.v >= 0
    /\ p.stock.t = "number" /\ p.stock.v >= 0 /\ p.stock.v % 100 = 0

\* C25: every product of the in-memory array and of the collection has a
\* name, a price >= 0 and a stock that is an integer >= 0.
C25_ProductsValid ==
    /\ \A i \in 1..Len(inMemoryProducts) : ValidProduct(inMemoryProducts[i])
    /\ \A i \in 1..Len(dbProducts) : ValidProduct(dbProducts[i])

(***************************************************************************)
(* the in-memory stores under concurrent requests                          *)
(***************************************************************************)
\* The emails whose registration the in-memory branch has answered 201.
RegisteredInMemory == {r.email : r \in {x \in authRegistered : x.backend = "memory"}}

\* C26: the in-memory users are those some serial execution of the answered
\* requests leaves.  Run one after another, a register answered 201 adds the
\* one user of its email and every later register of that email is answered
\* 400 and adds none: the array holds one user for each email answered 201.
C26_FallbackSerializable ==
    Len(inMemoryUsers) = Cardinality(RegisteredInMemory)

(***************************************************************************)
(* auth-service: login                                                     *)
(***************************************************************************)
\* C27: a login response carries a token only when a registration of the
\* email with the supplied password was answered 201 by the store that serves
\* the login; the token then carries the email and the identifier of the user
\* (the _id the database gave it; the email in the in-memory array, whose
\* users have no other); and a login for an email no registration was
\* answered 201 for, or with no email or no password, is answered 400 without
\* a token.
C27_TokenOnlyForRegistered ==
    (authResp.n > 0 /\ authResp.req.op = "login")
    => LET req == authResp.req
           body == authResp.body
       IN  /\ "token" \in DOMAIN body
              => /\ authResp.status = 200
                 /\ \E r \in authRegistered :
                        /\ r.backend = authResp.backend
                        /\ r.email = req.email
                        /\ r.password = req.password
                 /\ body.token.email = req.email
                 /\ IF authResp.backend = "db"
                    THEN \E i \in 1..Len(dbUsers) :
                            /\ dbUsers[i].email = req.email
                            /\ body.token.userId = dbUsers[i]._id
                    ELSE body.token.userId = req.email
           /\ (\/ req.email \in {Undefined, Str("")}
               \/ req.password \in {Undefined, Str("")}
               \/ ~\E r \in authRegistered : r.email = req.email)
              => (authResp.status = 400 /\ "token" \notin DOMAIN body)

\* A login with the registered password has been answered with a token by the
\* database branch.
C27_Witness ==
    /\ authResp.n > 0
    /\ authResp.req.op = "login"
    /\ authResp.backend = "db"
    /\ authResp.status = 200
    /\ "token" \in DOMAIN authResp.body
    /\ authResp.body.token.userId = Str("o1")

(***************************************************************************)
(* product-service: seeding                                                *)
(***************************************************************************)
\* How many products of the collection have the name of the i-th seed.
SeedCopies(coll, i) == Cardinality({j \in 1..Len(coll) : coll[j].name = SeedFields[i].name})

\* C28: seeding inserts into an empty collection only, and the collection
\* never holds a seeded product more than once, however many instances of
\* the service have started against it.
C28_SeededOnce ==
    [][/\ (\E k \in Instances : seedPc[k] = "insert" /\ seedPc'[k] = "done")
          => Len(dbProducts) = 0
       /\ \A i \in 1..Len(SeedFields) : SeedCopies(dbProducts', i) <= 1
      ]_vars

(***************************************************************************)
(* one response for every request                                          *)
(***************************************************************************)
\* The step sends at most one response, to a request it has just accepted or
\* to one that was suspended, which is then suspended no longer; and a
\* suspended request leaves its slot only by being answered.
Busy(slot) == slot.pc # "idle"

OneResponse(resp, respNew, slots, slotsNew, reqs, reqsNew) ==
    /\ respNew.n # resp.n
       => \/ /\ reqsNew = reqs + 1 /\ respNew.n = reqsNew
             /\ \A s \in DOMAIN slots : Busy(slotsNew[s]) = Busy(slots[s])
          \/ /\ reqsNew = reqs
             /\ \E s \in DOMAIN slots :
                   /\ Busy(slots[s]) /\ slots[s].n = respNew.n
                   /\ ~Busy(slotsNew[s])
                   /\ \A t \in DOMAIN slots \ {s} : Busy(slotsNew[t]) = Busy(slots[t])
    /\ \A s \in DOMAIN slots :
          Busy(slots[s])
          => IF Busy(slotsNew[s]) THEN slotsNew[s].n = slots[s].n
             ELSE respNew.n = slots[s].n /\ resp.n # slots[s].n
    /\ \A s, t \in DOMAIN slotsNew :
          (Busy(slotsNew[s]) /\ Busy(slotsNew[t]) /\ s # t)
          => slotsNew[s].n # slotsNew[t].n

\* C29: a request is answered once, in the step that accepts it or in the
\* step that ends its suspension, never again; and every request suspended at
\* an await is eventually answered.
C29_AnsweredOnceEventually ==
    /\ [][/\ OneResponse(prodResp, prodResp', prodSlots, prodSlots', prodReqs, prodReqs')
          /\ OneResponse(authResp, authResp', authSlots, authSlots', authReqs, authReqs')
          /\ OneResponse(orderResp, orderResp', orderSlots, orderSlots', orderReqs, orderReqs')
         ]_vars
    /\ \A s \in ProductSlots : Busy(prodSlots[s]) ~> ~Busy(prodSlots[s])
    /\ \A s \in AuthSlots : Busy(authSlots[s]) ~> ~Busy(authSlots[s])
    /\ \A s \in OrderSlots : Busy(orderSlots[s]) ~> ~Busy(orderSlots[s])

\* A login suspended at User.findOne while a registration is suspended too.
C29_Witness ==
    /\ \A s \in AuthSlots : Busy(authSlots[s])
    /\ \E s \in AuthSlots : authSlots[s].req.op = "login"

====
